---- MODULE Spec2Model ----
(***************************************************************************)
(* Model of webrtc::JsepTransportCollection (pc/jsep_transport_collection.cc). *)
(*                                                                         *)
(* A transport object is modelled by its address, a number in Transports;  *)
(* None is nullptr.  jsep_transports_by_name_ and mid_to_transport_ are    *)
(* std::maps, modelled as functions whose DOMAIN is the set of keys        *)
(* present.  An address whose object has been destroyed may be handed out  *)
(* again by the allocator, so RegisterTransport draws the address of the   *)
(* new object from the addresses that are not live.                        *)
(*                                                                         *)
(* The two injected callbacks are external: every invocation made by the   *)
(* last operation is recorded in `calls`, and the value a                  *)
(* map_change_callback_ invocation returns is an input of the operation.   *)
(* A failing RTC_DCHECK stops the program (aborted) in a build that has    *)
(* the checks compiled in, and is skipped otherwise.                       *)
(***************************************************************************)
EXTENDS Naturals, Sequences, FiniteSets

\* Bounds of the model.
NumTransports == 2
MaxPending == 2
MaxGroups == 2
NumGroupAddrs == 3

Mids == {"audio", "video"}
Names == Mids \cup {"t1"}
\* Iteration order of std::map<std::string, ...> over Names.
NameOrder == <<"audio", "t1", "video">>

None == 0
Transports == 1..NumTransports

\* RTC_DCHECK and RTC_DCHECK_RUN_ON are assertions that stop the program
\* when they fail: the builds considered have them compiled in.
DcheckBuilds == {TRUE}

\* A stored cricket::ContentGroup is modelled by its address, a number in
\* GroupAddrs, and its content names in order; all stored groups are BUNDLE
\* groups.  ForeignGroup is the address of a group BundleManager never
\* stored (one the caller owns).  As for transports, the address of a
\* destroyed group may be handed out again for a later copy.
GroupAddrs == 1..NumGroupAddrs
ForeignGroup == 0
\* The content names of the BUNDLE groups a description may carry.
GroupContents == {<<"audio">>, <<"audio", "video">>}
Descriptions == UNION {[1..n -> GroupContents] : n \in 0..MaxGroups}

\* The sequence both objects were constructed on, and the sequences a call
\* can come from.
Owner == "owner"
CallerSequences == {Owner, "other"}

VARIABLES
  caller,                    \* the sequence the last call was made on
  bundle_groups_,            \* BundleManager: the stored groups, in order
  jsep_transports_by_name_,  \* name -> owned transport
  mid_to_transport_,         \* mid -> transport pointer (non-owning)
  pending_mids_,             \* mids touched since the last commit/rollback
  aborted,                   \* an RTC_DCHECK has failed
  op,                        \* the last operation called, with its arguments
  ret,                       \* what it returned (TRUE for a void operation)
  calls,                     \* callback invocations it made, in order
  boundaryMap,               \* history: mid_to_transport_ at the last boundary
  txnPure,                   \* history: only Set/RemoveTransportForMid since then
  txnSetOnly,                \* history: only SetTransportForMid since then
  staleGroups                \* history: addresses of the groups destroyed so far

\* The history variables are not state of the program.  Those of the
\* transaction are maintained under SpecTxn only and staleGroups under
\* SpecHandles only; elsewhere they stay at their initial values.

vars == <<caller, bundle_groups_, jsep_transports_by_name_, mid_to_transport_,
          pending_mids_, aborted, op, ret, calls, boundaryMap, txnPure,
          txnSetOnly, staleGroups>>

EmptyMap == [k \in {} |-> None]
Put(m, k, v) == [x \in (DOMAIN m) \cup {k} |-> IF x = k THEN v ELSE m[x]]
Erase(m, k) == [x \in (DOMAIN m) \ {k} |-> m[x]]
Range(m) == {m[k] : k \in DOMAIN m}

Call(name, key, t) == [name |-> name, key |-> key, t |-> t]
MapEvent(key, t, r) == [cb |-> "map", key |-> key, t |-> t, ret |-> r]
StateEvent == [cb |-> "state", key |-> "", t |-> None, ret |-> TRUE]

Init ==
  /\ caller = Owner
  /\ bundle_groups_ = <<>>
  /\ staleGroups = {}
  /\ jsep_transports_by_name_ = EmptyMap
  /\ mid_to_transport_ = EmptyMap
  /\ pending_mids_ = <<>>
  /\ aborted = FALSE
  /\ op = Call("Init", "", None)
  /\ ret = TRUE
  /\ calls = <<>>
  /\ boundaryMap = EmptyMap
  /\ txnPure = TRUE
  /\ txnSetOnly = TRUE

\* RegisterTransport: jsep_transports_by_name_[mid] = std::move(transport).
\* The caller hands over a newly made object, so its address is not that of
\* a live transport; the transport previously held under mid is destroyed.
RegisterTransport(mid, transport) ==
  /\ ~aborted
  /\ transport \notin Range(jsep_transports_by_name_)
  /\ jsep_transports_by_name_' = Put(jsep_transports_by_name_, mid, transport)
  /\ op' = Call("RegisterTransport", mid, transport)
  /\ ret' = TRUE
  /\ calls' = <<>>
  /\ UNCHANGED <<mid_to_transport_, pending_mids_, aborted>>

\* Mutant: the loop of DestroyAllTransports stops after the first transport.
DestroyAllCalls_FirstOnly(byName, i) ==
  LET present == {j \in i..3 : <<"audio", "t1", "video">>[j] \in DOMAIN byName}
  IN IF present = {} THEN <<>>
     ELSE LET first == CHOOSE j \in present : \A k \in present : j <= k
          IN <<[cb |-> "map", key |-> <<"audio", "t1", "video">>[first],
                t |-> 0, ret |-> TRUE]>>

\* The map_change_callback_(name, nullptr) calls of DestroyAllTransports,
\* in the order of the map, starting at position i of NameOrder.  The value
\* the callback returns is discarded by the code; it is recorded as TRUE.
RECURSIVE DestroyAllCalls(_, _)
DestroyAllCalls(byName, i) ==
  IF i > Len(NameOrder) THEN <<>>
  ELSE (IF NameOrder[i] \in DOMAIN byName
          THEN <<MapEvent(NameOrder[i], None, TRUE)>> ELSE <<>>)
       \o DestroyAllCalls(byName, i + 1)

DestroyAllTransports ==
  /\ ~aborted
  /\ calls' = DestroyAllCalls(jsep_transports_by_name_, 1)
  /\ jsep_transports_by_name_' = EmptyMap
  /\ op' = Call("DestroyAllTransports", "", None)
  /\ ret' = TRUE
  /\ UNCHANGED <<mid_to_transport_, pending_mids_, aborted>>

\* Mutant: SetTransportForMid without its early return.
AlreadySet_Never(midMap, mid, jsep_transport) == FALSE

\* The early return of SetTransportForMid: mid is already mapped to it.
AlreadySet(midMap, mid, jsep_transport) ==
  mid \in DOMAIN midMap /\ midMap[mid] = jsep_transport

\* Mutant: SetTransportForMid that takes the association back when the
\* callback rejects it.
SetTransportForMid_UndoOnReject(mid, jsep_transport, cbRet) ==
  /\ ~aborted
  /\ jsep_transport \in Range(jsep_transports_by_name_)
  /\ op' = Call("SetTransportForMid", mid, jsep_transport)
  /\ IF mid \in DOMAIN mid_to_transport_
        /\ mid_to_transport_[mid] = jsep_transport
       THEN /\ ret' = TRUE
            /\ calls' = <<>>
            /\ UNCHANGED <<mid_to_transport_, pending_mids_>>
       ELSE /\ Len(pending_mids_) < MaxPending
            /\ calls' = <<[cb |-> "map", key |-> mid, t |-> jsep_transport,
                           ret |-> cbRet]>>
            /\ ret' = cbRet
            /\ IF cbRet
                 THEN /\ pending_mids_' = Append(pending_mids_, mid)
                      /\ mid_to_transport_'
                           = [x \in (DOMAIN mid_to_transport_) \cup {mid} |->
                                IF x = mid THEN jsep_transport
                                ELSE mid_to_transport_[x]]
                 ELSE UNCHANGED <<mid_to_transport_, pending_mids_>>
  /\ UNCHANGED <<jsep_transports_by_name_, aborted>>

\* SetTransportForMid; cbRet is what map_change_callback_ returns.  Callers
\* pass a registered transport (RTC_DCHECK(jsep_transport): never nullptr).
SetTransportForMid(mid, jsep_transport, cbRet) ==
  /\ ~aborted
  /\ jsep_transport \in Range(jsep_transports_by_name_)
  /\ op' = Call("SetTransportForMid", mid, jsep_transport)
  /\ IF AlreadySet(mid_to_transport_, mid, jsep_transport)
       THEN /\ ret' = TRUE
            /\ calls' = <<>>
            /\ UNCHANGED <<mid_to_transport_, pending_mids_>>
       ELSE /\ Len(pending_mids_) < MaxPending
            /\ pending_mids_' = Append(pending_mids_, mid)
            /\ mid_to_transport_' = Put(mid_to_transport_, mid, jsep_transport)
            /\ calls' = <<MapEvent(mid, jsep_transport, cbRet)>>
            /\ ret' = cbRet
  /\ UNCHANGED <<jsep_transports_by_name_, aborted>>

\* Mutant: RemoveTransportForMid that returns at once when the mid has no
\* association.
RemoveTransportForMid_SkipAbsent(mid, cbRet, dcheckIsOn) ==
  /\ ~aborted
  /\ op' = [name |-> "RemoveTransportForMid", key |-> mid, t |-> 0]
  /\ ret' = TRUE
  /\ IF mid \notin DOMAIN mid_to_transport_
       THEN calls' = <<>> /\ UNCHANGED <<aborted, mid_to_transport_>>
       ELSE /\ calls' = <<[cb |-> "map", key |-> mid, t |-> 0, ret |-> cbRet]>>
            /\ IF ~cbRet /\ dcheckIsOn
                 THEN aborted' = TRUE /\ UNCHANGED mid_to_transport_
                 ELSE /\ aborted' = FALSE
                      /\ mid_to_transport_'
                           = [x \in (DOMAIN mid_to_transport_) \ {mid} |->
                                mid_to_transport_[x]]
  /\ UNCHANGED <<jsep_transports_by_name_, pending_mids_>>

\* RemoveTransportForMid; cbRet is what map_change_callback_ returns.
\* RTC_DCHECK(ret) stops the program in a build where DCHECKs are on
\* (dcheckIsOn) and is compiled out otherwise.
RemoveTransportForMid(mid, cbRet, dcheckIsOn) ==
  /\ ~aborted
  /\ op' = Call("RemoveTransportForMid", mid, None)
  /\ calls' = <<MapEvent(mid, None, cbRet)>>
  /\ ret' = TRUE
  /\ IF ~cbRet /\ dcheckIsOn
       THEN aborted' = TRUE /\ UNCHANGED mid_to_transport_
       ELSE aborted' = FALSE /\ mid_to_transport_' = Erase(mid_to_transport_, mid)
  /\ UNCHANGED <<jsep_transports_by_name_, pending_mids_>>

\* Mutant: TransportInUse that never finds a referring mid.
TransportInUse_Never(midMap, jsep_transport) == FALSE

\* TransportInUse: some entry of mid_to_transport_ holds this pointer.
TransportInUse(midMap, jsep_transport) ==
  \E k \in DOMAIN midMap : midMap[k] = jsep_transport

\* Mutant: MaybeDestroyJsepTransport that erases without notifying.
MaybeDestroy_Silent(byName, midMap, mid) ==
  IF mid \notin DOMAIN byName
    THEN [byName |-> byName, calls |-> <<>>]
  ELSE IF \E k \in DOMAIN midMap : midMap[k] = byName[mid]
    THEN [byName |-> byName, calls |-> <<>>]
  ELSE [byName |-> [x \in (DOMAIN byName) \ {mid} |-> byName[x]],
        calls |-> <<>>]

\* Mutant: MaybeDestroyJsepTransport with the in-use test negated.
MaybeDestroy_Inverted(byName, midMap, mid) ==
  IF mid \notin DOMAIN byName
    THEN [byName |-> byName, calls |-> <<>>]
  ELSE IF ~(\E k \in DOMAIN midMap : midMap[k] = byName[mid])
    THEN [byName |-> byName, calls |-> <<>>]
  ELSE [byName |-> [x \in (DOMAIN byName) \ {mid} |-> byName[x]],
        calls |-> <<[cb |-> "state", key |-> "", t |-> 0, ret |-> TRUE]>>]


\* the resulting jsep_transports_by_name_ and the callbacks invoked.
MaybeDestroy(byName, midMap, mid) ==
  IF mid \notin DOMAIN byName
    THEN [byName |-> byName, calls |-> <<>>]
  ELSE IF TransportInUse(midMap, byName[mid])
    THEN [byName |-> byName, calls |-> <<>>]
  ELSE [byName |-> Erase(byName, mid), calls |-> <<StateEvent>>]

MaybeDestroyJsepTransport(mid) ==
  /\ ~aborted
  /\ LET r == MaybeDestroy(jsep_transports_by_name_, mid_to_transport_, mid)
     IN /\ jsep_transports_by_name_' = r.byName
        /\ calls' = r.calls
  /\ op' = Call("MaybeDestroyJsepTransport", mid, None)
  /\ ret' = TRUE
  /\ UNCHANGED <<mid_to_transport_, pending_mids_, aborted>>

\* Mutant: the first loop notifies for the pending mids and then clears the
\* whole of mid_to_transport_.
RollbackRemove_ClearAll(midMap, pending, i, n, failAt) ==
  [midMap |-> [k \in {} |-> 0],
   calls |-> [j \in 1..(IF n >= i THEN n - i + 1 ELSE 0) |->
                [cb |-> "map", key |-> pending[i + j - 1], t |-> 0,
                 ret |-> (i + j - 1) # failAt]]]

\* First loop of RollbackTransports over pending[i..n]: RemoveTransportForMid
\* of each; the callback returns FALSE at position failAt only (0: never).
RECURSIVE RollbackRemove(_, _, _, _, _)
RollbackRemove(midMap, pending, i, n, failAt) ==
  IF i > n THEN [midMap |-> midMap, calls |-> <<>>]
  ELSE LET rest == RollbackRemove(Erase(midMap, pending[i]), pending, i + 1,
                                  n, failAt)
       IN [midMap |-> rest.midMap,
           calls |-> <<MapEvent(pending[i], None, i # failAt)>> \o rest.calls]

\* Mutant: the second loop sweeps every registered name, not the pending mids.
RollbackDestroy_SweepAll(byName, midMap, pending, i) ==
  LET keep == {n \in DOMAIN byName :
                 \E k \in DOMAIN midMap : midMap[k] = byName[n]}
  IN [byName |-> [n \in keep |-> byName[n]],
      calls |-> [j \in 1..Cardinality((DOMAIN byName) \ keep) |->
                   [cb |-> "state", key |-> "", t |-> 0, ret |-> TRUE]]]

\* Second loop of RollbackTransports over pending[i..]: MaybeDestroyJsepTransport
\* of each.
RECURSIVE RollbackDestroy(_, _, _, _)
RollbackDestroy(byName, midMap, pending, i) ==
  IF i > Len(pending) THEN [byName |-> byName, calls |-> <<>>]
  ELSE LET r == MaybeDestroy(byName, midMap, pending[i])
           rest == RollbackDestroy(r.byName, midMap, pending, i + 1)
       IN [byName |-> rest.byName, calls |-> r.calls \o rest.calls]

\* Mutant: RollbackTransports that forgets pending_mids_.clear().
RollbackPending_Kept(pending) == pending

\* What RollbackTransports leaves in pending_mids_.
RollbackPending(pending) == <<>>

\* Mutant: RollbackTransports with one loop, which detaches a pending mid
\* and runs the destruction check for it before turning to the next mid.
RECURSIVE RollbackMerged(_, _, _, _)
RollbackMerged(byName, midMap, pending, i) ==
  IF i > Len(pending) THEN [byName |-> byName, midMap |-> midMap, calls |-> <<>>]
  ELSE LET m1 == [x \in (DOMAIN midMap) \ {pending[i]} |-> midMap[x]]
           gone == /\ pending[i] \in DOMAIN byName
                   /\ ~\E k \in DOMAIN m1 : m1[k] = byName[pending[i]]
           b1 == IF gone
                   THEN [x \in (DOMAIN byName) \ {pending[i]} |-> byName[x]]
                   ELSE byName
           rest == RollbackMerged(b1, m1, pending, i + 1)
       IN [byName |-> rest.byName, midMap |-> rest.midMap,
           calls |-> <<[cb |-> "map", key |-> pending[i], t |-> 0,
                        ret |-> TRUE]>>
                     \o (IF gone THEN <<[cb |-> "state", key |-> "", t |-> 0,
                                         ret |-> TRUE]>> ELSE <<>>)
                     \o rest.calls]

RollbackTransports_Merged(failAt, dcheckIsOn) ==
  /\ ~aborted
  /\ failAt = 0
  /\ op' = [name |-> "RollbackTransports", key |-> "", t |-> 0]
  /\ ret' = TRUE
  /\ LET r == RollbackMerged(jsep_transports_by_name_, mid_to_transport_,
                             pending_mids_, 1)
     IN /\ mid_to_transport_' = r.midMap
        /\ jsep_transports_by_name_' = r.byName
        /\ calls' = r.calls
  /\ pending_mids_' = <<>>
  /\ aborted' = FALSE

RollbackTransports(failAt, dcheckIsOn) ==
  /\ ~aborted
  /\ failAt <= Len(pending_mids_)
  /\ op' = Call("RollbackTransports", "", None)
  /\ ret' = TRUE
  /\ IF failAt # 0 /\ dcheckIsOn
       THEN \* the RTC_DCHECK in the failAt-th RemoveTransportForMid fails
            LET p1 == RollbackRemove(mid_to_transport_, pending_mids_, 1,
                                     failAt - 1, failAt)
            IN /\ mid_to_transport_' = p1.midMap
               /\ calls' = p1.calls
                            \o <<MapEvent(pending_mids_[failAt], None, FALSE)>>
               /\ aborted' = TRUE
               /\ UNCHANGED <<jsep_transports_by_name_, pending_mids_>>
       ELSE LET p1 == RollbackRemove(mid_to_transport_, pending_mids_, 1,
                                     Len(pending_mids_), failAt)
                p2 == RollbackDestroy(jsep_transports_by_name_, p1.midMap,
                                      pending_mids_, 1)
            IN /\ mid_to_transport_' = p1.midMap
               /\ jsep_transports_by_name_' = p2.byName
               /\ calls' = p1.calls \o p2.calls
               /\ pending_mids_' = RollbackPending(pending_mids_)
               /\ aborted' = FALSE

CommitTransports ==
  /\ ~aborted
  /\ pending_mids_' = <<>>
  /\ op' = Call("CommitTransports", "", None)
  /\ ret' = TRUE
  /\ calls' = <<>>
  /\ UNCHANGED <<jsep_transports_by_name_, mid_to_transport_, aborted>>

\* The addresses under which Update can store n copies: clear() has
\* destroyed the groups stored before, so every address is free again.
Allocations(n) ==
  {a \in [1..n -> GroupAddrs] : \A i, j \in 1..n : a[i] = a[j] => i = j}

AllAllocations == UNION {Allocations(n) : n \in 0..MaxGroups}

\* BundleManager::Update; description lists the content names of the BUNDLE
\* groups of the session description, addrs the addresses of the copies.
Update(description, addrs) ==
  /\ ~aborted
  /\ addrs \in Allocations(Len(description))
  /\ bundle_groups_' = [i \in 1..Len(description) |->
                          [addr |-> addrs[i], mids |-> description[i]]]
  /\ op' = Call("Update", "", description)
  /\ ret' = TRUE
  /\ calls' = <<>>
  /\ UNCHANGED aborted

\* Mutant: the lookup compares the groups' contents, not their addresses.
FindGroup_ByContent(groups, bundle_group) ==
  LET same == {i \in 1..Len(groups) : groups[i].addr = bundle_group}
      hits == {i \in 1..Len(groups) :
                 \E j \in same : groups[i].mids = groups[j].mids}
  IN IF hits = {} THEN Len(groups) + 1
     ELSE CHOOSE i \in hits : \A j \in hits : i <= j

\* The std::find_if of DeleteMid and DeleteGroup: the position of the first
\* stored group whose address is bundle_group, Len(groups) + 1 for end().
FindGroup(groups, bundle_group) ==
  LET hits == {i \in 1..Len(groups) : groups[i].addr = bundle_group}
  IN IF hits = {} THEN Len(groups) + 1
     ELSE CHOOSE i \in hits : \A j \in hits : i <= j

\* ContentGroup::RemoveContentName: the content names without mid.
RemoveContentName(mids, mid) ==
  LET Other(m) == m # mid IN SelectSeq(mids, Other)

\* std::vector::erase of the element at position i.
EraseAt(groups, i) ==
  [j \in 1..(Len(groups) - 1) |-> IF j < i THEN groups[j] ELSE groups[j + 1]]

\* The value a std::string has after std::vector::erase has moved it down.
MovedFrom == ""

\* RemoveContentName run through a destroyed group whose content_names_
\* still points at the buffer that a stored group's names now occupy, the
\* destroyed group having had k names: erase moves the names behind mid
\* down by one inside that buffer and leaves a moved-from string in slot k,
\* while the stored group keeps its size.  When mid is not among the first
\* k names, or is the k-th, no name is moved.
StaleRemove(mids, k, mid) ==
  IF (\E j \in 1..(k - 1) : mids[j] = mid) /\ mids[k] # mid
    THEN RemoveContentName(SubSeq(mids, 1, k), mid) \o <<MovedFrom>>
           \o SubSeq(mids, k + 1, Len(mids))
    ELSE mids

\* BundleManager::DeleteMid.  When the group is not found the RTC_DCHECK
\* stops the program.  With the check compiled out the element at end() is
\* dereferenced: the slot behind the last element can hold the pointer of a
\* group stored earlier, so RemoveContentName runs on whatever is at that
\* address now: a stored group, a destroyed group whose names share their
\* buffer with a stored group (StaleRemove), or memory that belongs to no
\* stored group; or the program crashes.
DeleteMid(bundle_group, mid, dcheckIsOn) ==
  /\ ~aborted
  /\ op' = Call("DeleteMid", mid, bundle_group)
  /\ ret' = TRUE
  /\ calls' = <<>>
  /\ LET it == FindGroup(bundle_groups_, bundle_group)
     IN IF it > Len(bundle_groups_)
          THEN IF dcheckIsOn
                 THEN aborted' = TRUE /\ UNCHANGED bundle_groups_
                 ELSE \/ aborted' = TRUE /\ UNCHANGED bundle_groups_
                      \/ aborted' = FALSE /\ UNCHANGED bundle_groups_
                      \/ /\ aborted' = FALSE
                         /\ \E i \in 1..Len(bundle_groups_) :
                              bundle_groups_' =
                                [bundle_groups_ EXCEPT
                                   ![i].mids = RemoveContentName(@, mid)]
                      \/ /\ aborted' = FALSE
                         /\ \E i \in 1..Len(bundle_groups_) :
                              \E k \in 1..Len(bundle_groups_[i].mids) :
                                bundle_groups_' =
                                  [bundle_groups_ EXCEPT
                                     ![i].mids = StaleRemove(@, k, mid)]
          ELSE /\ bundle_groups_' =
                    [bundle_groups_ EXCEPT
                       ![it].mids = RemoveContentName(@, mid)]
               /\ aborted' = FALSE

\* BundleManager::DeleteGroup.  When the group is not found the RTC_DCHECK
\* stops the program.  With the check compiled out erase(end()) runs: it
\* moves nothing, steps the end back by one and destroys the element there,
\* so the last stored group is erased, or the program crashes.  On an empty
\* list the element before begin() is destroyed, which crashes or goes
\* unnoticed.
DeleteGroup(bundle_group, dcheckIsOn) ==
  /\ ~aborted
  /\ op' = Call("DeleteGroup", "", bundle_group)
  /\ ret' = TRUE
  /\ calls' = <<>>
  /\ LET it == FindGroup(bundle_groups_, bundle_group)
     IN IF it > Len(bundle_groups_)
          THEN IF dcheckIsOn
                 THEN aborted' = TRUE /\ UNCHANGED bundle_groups_
                 ELSE \/ aborted' = TRUE /\ UNCHANGED bundle_groups_
                      \/ /\ aborted' = FALSE
                         /\ bundle_groups_' =
                              IF bundle_groups_ = <<>> THEN <<>>
                              ELSE EraseAt(bundle_groups_,
                                           Len(bundle_groups_))
          ELSE /\ bundle_groups_' = EraseAt(bundle_groups_, it)
               /\ aborted' = FALSE

\* A call on JsepTransportCollection leaves BundleManager alone and the
\* other way round.
RegistryOnly == UNCHANGED <<bundle_groups_, staleGroups>>
BundleOnly ==
  UNCHANGED <<jsep_transports_by_name_, mid_to_transport_, pending_mids_,
              boundaryMap, txnPure, txnSetOnly>>

\* Every call is made on the owner's sequence.
OwnerOnly == UNCHANGED caller

\* The history is not recorded.
Untracked ==
  UNCHANGED <<boundaryMap, txnPure, txnSetOnly>> /\ RegistryOnly /\ OwnerOnly

Next ==
  \/ \E mid \in Names, t \in Transports :
       RegisterTransport(mid, t) /\ Untracked
  \/ DestroyAllTransports /\ Untracked
  \/ \E mid \in Mids, t \in Transports, cbRet \in BOOLEAN :
       SetTransportForMid(mid, t, cbRet) /\ Untracked
  \/ \E mid \in Mids, cbRet \in BOOLEAN, dcheckIsOn \in DcheckBuilds :
       RemoveTransportForMid(mid, cbRet, dcheckIsOn) /\ Untracked
  \/ \E mid \in Names : MaybeDestroyJsepTransport(mid) /\ Untracked
  \/ \E failAt \in 0..MaxPending, dcheckIsOn \in DcheckBuilds :
       RollbackTransports(failAt, dcheckIsOn) /\ Untracked
  \/ CommitTransports /\ Untracked

Spec == Init /\ [][Next]_vars

\* The history of the transaction: a boundary is a CommitTransports or
\* RollbackTransports call that returned.
AtBoundary ==
  op'.name \in {"CommitTransports", "RollbackTransports"} /\ ~aborted'

TrackTxn ==
  /\ boundaryMap' = IF AtBoundary THEN mid_to_transport_' ELSE boundaryMap
  /\ txnPure' = IF AtBoundary THEN TRUE
                ELSE IF op'.name \in {"SetTransportForMid",
                                      "RemoveTransportForMid"} THEN txnPure
                ELSE FALSE
  /\ txnSetOnly' = IF AtBoundary THEN TRUE
                   ELSE IF op'.name = "SetTransportForMid" THEN txnSetOnly
                   ELSE FALSE
  /\ RegistryOnly
  /\ OwnerOnly

NextTxn ==
  \/ \E mid \in Names, t \in Transports :
       RegisterTransport(mid, t) /\ TrackTxn
  \/ DestroyAllTransports /\ TrackTxn
  \/ \E mid \in Mids, t \in Transports, cbRet \in BOOLEAN :
       SetTransportForMid(mid, t, cbRet) /\ TrackTxn
  \/ \E mid \in Mids, cbRet \in BOOLEAN, dcheckIsOn \in DcheckBuilds :
       RemoveTransportForMid(mid, cbRet, dcheckIsOn) /\ TrackTxn
  \/ \E mid \in Names : MaybeDestroyJsepTransport(mid) /\ TrackTxn
  \/ \E failAt \in 0..MaxPending, dcheckIsOn \in DcheckBuilds :
       RollbackTransports(failAt, dcheckIsOn) /\ TrackTxn
  \/ CommitTransports /\ TrackTxn

SpecTxn == Init /\ [][NextTxn]_vars

\* BundleManager alone.
Unrecorded == UNCHANGED staleGroups /\ OwnerOnly

NextBundle ==
  \/ \E description \in Descriptions, addrs \in AllAllocations :
       Update(description, addrs) /\ BundleOnly /\ Unrecorded
  \/ \E g \in GroupAddrs \cup {ForeignGroup}, mid \in Mids,
        dcheckIsOn \in DcheckBuilds :
       DeleteMid(g, mid, dcheckIsOn) /\ BundleOnly /\ Unrecorded
  \/ \E g \in GroupAddrs \cup {ForeignGroup}, dcheckIsOn \in DcheckBuilds :
       DeleteGroup(g, dcheckIsOn) /\ BundleOnly /\ Unrecorded

SpecBundle == Init /\ [][NextBundle]_vars

\* BundleManager with the history of the handles: the addresses of the
\* groups that Update or DeleteGroup has destroyed, which a caller may
\* still hold.
TrackHandles ==
  LET before == {bundle_groups_[i].addr : i \in 1..Len(bundle_groups_)}
      after == {bundle_groups_'[i].addr : i \in 1..Len(bundle_groups_')}
  IN /\ staleGroups' = staleGroups
                         \cup (IF op'.name = "Update" THEN before
                               ELSE before \ after)
     /\ OwnerOnly

NextHandles ==
  \/ \E description \in Descriptions, addrs \in AllAllocations :
       Update(description, addrs) /\ BundleOnly /\ TrackHandles
  \/ \E g \in GroupAddrs \cup {ForeignGroup}, mid \in Mids,
        dcheckIsOn \in DcheckBuilds :
       DeleteMid(g, mid, dcheckIsOn) /\ BundleOnly /\ TrackHandles
  \/ \E g \in GroupAddrs \cup {ForeignGroup}, dcheckIsOn \in DcheckBuilds :
       DeleteGroup(g, dcheckIsOn) /\ BundleOnly /\ TrackHandles

SpecHandles == Init /\ [][NextHandles]_vars

\* The lookups.  Transports() is named GetTransports here.
RECURSIVE TransportsFrom(_, _)
TransportsFrom(byName, i) ==
  IF i > Len(NameOrder) THEN <<>>
  ELSE (IF NameOrder[i] \in DOMAIN byName THEN <<byName[NameOrder[i]]>>
        ELSE <<>>) \o TransportsFrom(byName, i + 1)

Lookup(name, key, t, result) ==
  /\ ~aborted
  /\ op' = Call(name, key, t)
  /\ ret' = result
  /\ calls' = <<>>
  /\ UNCHANGED <<jsep_transports_by_name_, mid_to_transport_, pending_mids_,
                 aborted>>

GetTransports ==
  Lookup("Transports", "", None, TransportsFrom(jsep_transports_by_name_, 1))

GetTransportByName(transport_name) ==
  Lookup("GetTransportByName", transport_name, None,
         IF transport_name \in DOMAIN jsep_transports_by_name_
           THEN jsep_transports_by_name_[transport_name] ELSE None)

GetTransportForMid(mid) ==
  Lookup("GetTransportForMid", mid, None,
         IF mid \in DOMAIN mid_to_transport_
           THEN mid_to_transport_[mid] ELSE None)

CallTransportInUse(jsep_transport) ==
  Lookup("TransportInUse", "", jsep_transport,
         TransportInUse(mid_to_transport_, jsep_transport))

\* SequenceChecker::IsCurrent: the call is made on the owner's sequence.
IsCurrent(c) == c = Owner

\* A method that starts its body without checking the sequence.
RunOn_Unchecked(c, name, key, t, body) == body /\ caller' = c

\* A public method called on sequence c.  RTC_DCHECK_RUN_ON is its first
\* statement: body is what the method does after it.
RunOn(c, name, key, t, body) ==
  IF IsCurrent(c)
    THEN body /\ caller' = c
    ELSE /\ ~aborted
         /\ aborted' = TRUE
         /\ caller' = c
         /\ op' = Call(name, key, t)
         /\ ret' = TRUE
         /\ calls' = <<>>
         /\ UNCHANGED <<bundle_groups_, jsep_transports_by_name_,
                        mid_to_transport_, pending_mids_>>

\* Both objects with callers on two sequences.  To keep the joint state
\* space small the calls use one mid, which is also the one transport name,
\* and descriptions of at most one group.
SeqMids == {"audio"}
SeqDescriptions == {d \in Descriptions : Len(d) <= 1}
SeqAllocations == Allocations(0) \cup Allocations(1)
NoHistory == UNCHANGED <<boundaryMap, txnPure, txnSetOnly, staleGroups>>
OnBundle == UNCHANGED <<jsep_transports_by_name_, mid_to_transport_,
                        pending_mids_>>
OnRegistry == UNCHANGED bundle_groups_

NextSeq ==
  \/ \E c \in CallerSequences, d \in SeqDescriptions, a \in SeqAllocations :
       RunOn(c, "Update", "", d, Update(d, a) /\ OnBundle) /\ NoHistory
  \/ \E c \in CallerSequences, g \in GroupAddrs \cup {ForeignGroup},
        mid \in SeqMids, dcheckIsOn \in DcheckBuilds :
       RunOn(c, "DeleteMid", mid, g, DeleteMid(g, mid, dcheckIsOn) /\ OnBundle)
         /\ NoHistory
  \/ \E c \in CallerSequences, g \in GroupAddrs \cup {ForeignGroup},
        dcheckIsOn \in DcheckBuilds :
       RunOn(c, "DeleteGroup", "", g, DeleteGroup(g, dcheckIsOn) /\ OnBundle)
         /\ NoHistory
  \/ \E c \in CallerSequences, mid \in SeqMids, t \in Transports :
       RunOn(c, "RegisterTransport", mid, t,
             RegisterTransport(mid, t) /\ OnRegistry) /\ NoHistory
  \/ \E c \in CallerSequences :
       RunOn(c, "Transports", "", None, GetTransports /\ OnRegistry)
         /\ NoHistory
  \/ \E c \in CallerSequences :
       RunOn(c, "DestroyAllTransports", "", None,
             DestroyAllTransports /\ OnRegistry) /\ NoHistory
  \/ \E c \in CallerSequences, n \in SeqMids :
       RunOn(c, "GetTransportByName", n, None,
             GetTransportByName(n) /\ OnRegistry) /\ NoHistory
  \/ \E c \in CallerSequences, mid \in SeqMids :
       RunOn(c, "GetTransportForMid", mid, None,
             GetTransportForMid(mid) /\ OnRegistry) /\ NoHistory
  \/ \E c \in CallerSequences, mid \in SeqMids, t \in Transports,
        cbRet \in BOOLEAN :
       RunOn(c, "SetTransportForMid", mid, t,
             SetTransportForMid(mid, t, cbRet) /\ OnRegistry) /\ NoHistory
  \/ \E c \in CallerSequences, mid \in SeqMids, cbRet \in BOOLEAN,
        dcheckIsOn \in DcheckBuilds :
       RunOn(c, "RemoveTransportForMid", mid, None,
             RemoveTransportForMid(mid, cbRet, dcheckIsOn) /\ OnRegistry)
         /\ NoHistory
  \/ \E c \in CallerSequences, failAt \in 0..MaxPending,
        dcheckIsOn \in DcheckBuilds :
       RunOn(c, "RollbackTransports", "", None,
             RollbackTransports(failAt, dcheckIsOn) /\ OnRegistry)
         /\ NoHistory
  \/ \E c \in CallerSequences :
       RunOn(c, "CommitTransports", "", None, CommitTransports /\ OnRegistry)
         /\ NoHistory
  \/ \E c \in CallerSequences, t \in Transports :
       RunOn(c, "TransportInUse", "", t, CallTransportInUse(t) /\ OnRegistry)
         /\ NoHistory
  \/ \E c \in CallerSequences, mid \in SeqMids :
       RunOn(c, "MaybeDestroyJsepTransport", mid, None,
             MaybeDestroyJsepTransport(mid) /\ OnRegistry) /\ NoHistory

SpecSeq == Init /\ [][NextSeq]_vars

TypeOK ==
  /\ DOMAIN jsep_transports_by_name_ \subseteq Names
  /\ Range(jsep_transports_by_name_) \subseteq Transports
  /\ DOMAIN mid_to_transport_ \subseteq Mids
  /\ Range(mid_to_transport_) \subseteq Transports
  /\ Len(pending_mids_) <= MaxPending

----------------------------------------------------------------------------
\* Properties.

IsState(e) == e.cb = "state"
IsMap(e) == e.cb = "map"
StateCalls(cs) == Len(SelectSeq(cs, IsState))
MapCalls(cs) == SelectSeq(cs, IsMap)
SeqSet(s) == {s[i] : i \in 1..Len(s)}
\* The mids whose entry holds the pointer t.
Referrers(midMap, t) == {k \in DOMAIN midMap : midMap[k] = t}
\* name holds a transport before the step and no longer holds that one after.
Dropped(name) ==
  /\ name \in DOMAIN jsep_transports_by_name_
  /\ \/ name \notin DOMAIN jsep_transports_by_name_'
     \/ jsep_transports_by_name_'[name] # jsep_transports_by_name_[name]
Returned(name) == op.name = name /\ ~aborted
Returns(name) == op'.name = name /\ ~aborted'

\* C1: when only SetTransportForMid and RemoveTransportForMid calls were made
\* since the last boundary, RollbackTransports leaves mid_to_transport_ equal
\* to the mapping that was established at that boundary.
C1_RollbackRestoresMapping ==
  [][(Returns("RollbackTransports") /\ txnPure)
       => mid_to_transport_' = boundaryMap]_vars

\* C2: every transport an entry of mid_to_transport_ points at is owned in
\* jsep_transports_by_name_.
C2_MidsPointAtOwnedTransports ==
  Range(mid_to_transport_) \subseteq Range(jsep_transports_by_name_)

\* C3: a transport all of whose referring mids are pending (and that has at
\* least one) is no longer owned after RollbackTransports, whatever name it
\* is registered under; its mids have no entry and the state callback fired.
C3_RollbackReclaimsUnreferenced ==
  [][Returns("RollbackTransports")
       => \A n \in DOMAIN jsep_transports_by_name_ :
            LET T == jsep_transports_by_name_[n]
                S == Referrers(mid_to_transport_, T)
            IN (S # {} /\ S \subseteq SeqSet(pending_mids_))
                 => /\ T \notin Range(jsep_transports_by_name_')
                    /\ S \cap DOMAIN mid_to_transport_' = {}
                    /\ StateCalls(calls') >= 1]_vars

\* C4: a MaybeDestroyJsepTransport(name) call erases the entry of name iff
\* name is registered and no mid_to_transport_ entry holds its transport, and
\* invokes state_change_callback_ once if it erases and not at all otherwise;
\* RollbackTransports erases exactly the pending names whose transport no
\* entry holds once the pending mids are detached, one callback for each.
C4_NoPrematureDestruction ==
  [][/\ Returns("MaybeDestroyJsepTransport")
          => LET n == op'.key
                 erasable ==
                   /\ n \in DOMAIN jsep_transports_by_name_
                   /\ Referrers(mid_to_transport_,
                                jsep_transports_by_name_[n]) = {}
             IN /\ erasable
                     => /\ jsep_transports_by_name_'
                             = Erase(jsep_transports_by_name_, n)
                        /\ calls' = <<StateEvent>>
                /\ ~erasable
                     => /\ jsep_transports_by_name_' = jsep_transports_by_name_
                        /\ calls' = <<>>
     /\ Returns("RollbackTransports")
          => LET gone == {n \in DOMAIN jsep_transports_by_name_ :
                            /\ n \in SeqSet(pending_mids_)
                            /\ Referrers(mid_to_transport_',
                                         jsep_transports_by_name_[n]) = {}}
             IN /\ DOMAIN jsep_transports_by_name_'
                     = DOMAIN jsep_transports_by_name_ \ gone
                /\ \A n \in DOMAIN jsep_transports_by_name_' :
                     jsep_transports_by_name_'[n] = jsep_transports_by_name_[n]
                /\ StateCalls(calls') = Cardinality(gone)]_vars

\* C4 witness: the check ran for a registered name whose transport two mids
\* referenced until one was removed, and it kept the transport.
C4_Witness ==
  /\ Returned("MaybeDestroyJsepTransport")
  /\ op.key \in DOMAIN jsep_transports_by_name_
  /\ Cardinality(Referrers(mid_to_transport_,
                           jsep_transports_by_name_[op.key])) = 1
  /\ Cardinality(DOMAIN mid_to_transport_) = 1
  /\ calls = <<>>

\* C5 as stated: a transport is dropped only by a MaybeDestroyJsepTransport
\* check (direct or in RollbackTransports) while no entry refers to it.
C5_OnlyMaybeDestroyDestroys ==
  [][\A n \in Names :
       Dropped(n)
         => /\ op'.name \in {"MaybeDestroyJsepTransport", "RollbackTransports"}
            /\ jsep_transports_by_name_[n] \notin Range(mid_to_transport_')]_vars

\* C5 amended: a transport is dropped only by a MaybeDestroyJsepTransport
\* check for its name (direct or in RollbackTransports) made while no entry
\* refers to it, by RegisterTransport over its name, or by
\* DestroyAllTransports; SetTransportForMid, RemoveTransportForMid and
\* CommitTransports never drop one.
C5_DestructionPoints ==
  [][\A n \in Names :
       Dropped(n)
         => \/ /\ op' = Call("MaybeDestroyJsepTransport", n, None)
               /\ jsep_transports_by_name_[n] \notin Range(mid_to_transport_)
            \/ /\ op'.name = "RollbackTransports"
               /\ n \in SeqSet(pending_mids_)
               /\ jsep_transports_by_name_[n] \notin Range(mid_to_transport_')
            \/ /\ op'.name = "RegisterTransport"
               /\ op'.key = n
            \/ op'.name = "DestroyAllTransports"]_vars

\* C5 witness: DestroyAllTransports dropped transports while mids refer to
\* some transport.
C5_Witness ==
  /\ Returned("DestroyAllTransports")
  /\ calls # <<>>
  /\ mid_to_transport_ # EmptyMap

\* C6: SetTransportForMid(mid, t) with mid already mapped to t returns true,
\* changes none of the three collections and invokes no callback.
C6_SetIsIdempotent ==
  [][(/\ op'.name = "SetTransportForMid"
      /\ op'.key \in DOMAIN mid_to_transport_
      /\ mid_to_transport_[op'.key] = op'.t)
       => /\ ret' = TRUE
          /\ calls' = <<>>
          /\ UNCHANGED <<mid_to_transport_, jsep_transports_by_name_,
                         pending_mids_>>]_vars

\* C6 witness: a SetTransportForMid call that found the mid already set.
C6_Witness ==
  /\ Returned("SetTransportForMid")
  /\ calls = <<>>
  /\ op.key \in DOMAIN mid_to_transport_
  /\ mid_to_transport_[op.key] = op.t
  /\ pending_mids_ # <<>>

\* C7: CommitTransports only empties pending_mids_; RollbackTransports on an
\* empty pending log changes neither map and invokes no callback.
C7_CommitIsIrreversible ==
  [][/\ op'.name = "CommitTransports"
          => /\ pending_mids_' = <<>>
             /\ calls' = <<>>
             /\ UNCHANGED <<mid_to_transport_, jsep_transports_by_name_,
                            aborted>>
     /\ (op'.name = "RollbackTransports" /\ pending_mids_ = <<>>)
          => /\ calls' = <<>>
             /\ pending_mids_' = <<>>
             /\ UNCHANGED <<mid_to_transport_, jsep_transports_by_name_,
                            aborted>>]_vars

\* C7 witness: RollbackTransports returned having had nothing to undo while
\* associations made permanent by a commit exist.
C7_Witness ==
  /\ Returned("RollbackTransports")
  /\ calls = <<>>
  /\ pending_mids_ = <<>>
  /\ mid_to_transport_ # EmptyMap

\* C8: a SetTransportForMid call that changes the association returns what
\* map_change_callback_(mid, t) returned, and also when that is false the
\* mid is mapped to t and is the last entry of pending_mids_.
C8_RejectionIsReportedNotUndone ==
  (op.name = "SetTransportForMid" /\ calls # <<>>)
    => /\ Len(calls) = 1
       /\ calls[1].cb = "map"
       /\ calls[1].key = op.key
       /\ calls[1].t = op.t
       /\ ret = calls[1].ret
       /\ op.key \in DOMAIN mid_to_transport_
       /\ mid_to_transport_[op.key] = op.t
       /\ pending_mids_ # <<>>
       /\ pending_mids_[Len(pending_mids_)] = op.key

\* C8 witness: the callback rejected the association and the call returned
\* false.
C8_Witness ==
  /\ op.name = "SetTransportForMid"
  /\ calls # <<>>
  /\ ret = FALSE

\* C9: every step that drops an owned transport invokes
\* state_change_callback_.
C9_StateCallbackOnEveryDestruction ==
  [][(\E n \in Names : Dropped(n)) => StateCalls(calls') >= 1]_vars

\* C10: pending_mids_ is empty after CommitTransports and RollbackTransports,
\* gains exactly the mid at its end in a SetTransportForMid call that changes
\* the association, and is unchanged by every other call.
C10_PendingIsAppendOnly ==
  [][IF Returns("CommitTransports") \/ Returns("RollbackTransports")
       THEN pending_mids_' = <<>>
     ELSE IF /\ op'.name = "SetTransportForMid"
             /\ ~(/\ op'.key \in DOMAIN mid_to_transport_
                  /\ mid_to_transport_[op'.key] = op'.t)
       THEN pending_mids_' = Append(pending_mids_, op'.key)
     ELSE pending_mids_' = pending_mids_]_vars

\* C10 witness: the log holds the same mid twice.
C10_Witness ==
  /\ Len(pending_mids_) >= 2
  /\ pending_mids_[1] = pending_mids_[2]
  /\ op.name = "SetTransportForMid"

\* C11 as stated: once an operation has completed, the transports owned in
\* jsep_transports_by_name_ are exactly those some mid_to_transport_ entry
\* points at.
C11_OwnedIffReferenced ==
  ~aborted => Range(jsep_transports_by_name_) = Range(mid_to_transport_)

\* C11 amended: a name that is still registered when a
\* MaybeDestroyJsepTransport check for it has completed (called directly, or
\* by RollbackTransports for a pending mid) holds a transport that some
\* entry refers to; other operations may leave unreferenced transports.
C11_RegisteredAfterCheckIsReferenced ==
  [][/\ Returns("MaybeDestroyJsepTransport")
          => (op'.key \in DOMAIN jsep_transports_by_name_'
                => Referrers(mid_to_transport_',
                             jsep_transports_by_name_'[op'.key]) # {})
     /\ Returns("RollbackTransports")
          => \A n \in SeqSet(pending_mids_) \cap DOMAIN jsep_transports_by_name_' :
               Referrers(mid_to_transport_', jsep_transports_by_name_'[n]) # {}]_vars

\* C11 witness: the check returned for a name that stays registered because
\* a mid refers to its transport, while another registered transport has no
\* referring mid.
C11_Witness ==
  /\ Returned("MaybeDestroyJsepTransport")
  /\ op.key \in DOMAIN jsep_transports_by_name_
  /\ Referrers(mid_to_transport_, jsep_transports_by_name_[op.key]) # {}
  /\ \E n \in DOMAIN jsep_transports_by_name_ :
       Referrers(mid_to_transport_, jsep_transports_by_name_[n]) = {}

\* C16: DestroyAllTransports invokes map_change_callback_(name, nullptr)
\* once for each registered name and for nothing else, empties
\* jsep_transports_by_name_, and leaves mid_to_transport_ and pending_mids_
\* as they were.
C16_DestroyAllNotifiesEachName ==
  [][Returns("DestroyAllTransports")
       => /\ jsep_transports_by_name_' = EmptyMap
          /\ UNCHANGED <<mid_to_transport_, pending_mids_>>
          /\ Len(calls') = Cardinality(DOMAIN jsep_transports_by_name_)
          /\ \A i \in 1..Len(calls') :
               /\ calls'[i].cb = "map"
               /\ calls'[i].t = None
               /\ calls'[i].key \in DOMAIN jsep_transports_by_name_
          /\ \A n \in DOMAIN jsep_transports_by_name_ :
               Cardinality({i \in 1..Len(calls') : calls'[i].key = n}) = 1]_vars

\* C16 witness: two transports were torn down while a mid that is no
\* transport name is mapped and the pending log is not empty.
C16_Witness ==
  /\ Returned("DestroyAllTransports")
  /\ Len(calls) = 2
  /\ pending_mids_ # <<>>
  /\ \E m \in DOMAIN mid_to_transport_ :
       \A i \in 1..Len(calls) : calls[i].key # m

\* C17: the callbacks of one RollbackTransports call are
\* map_change_callback_(mid, nullptr) for every entry of pending_mids_, in
\* the recorded order, and only after all of them the
\* state_change_callback_ invocations of the transports it destroys;
\* pending_mids_ is empty when it returns.
C17_RollbackDetachesThenSweeps ==
  [][Returns("RollbackTransports")
       => LET n == Len(pending_mids_)
          IN /\ Len(calls') >= n
             /\ \A i \in 1..n :
                  /\ calls'[i].cb = "map"
                  /\ calls'[i].key = pending_mids_[i]
                  /\ calls'[i].t = None
             /\ \A i \in (n + 1)..Len(calls') : calls'[i] = StateEvent
             /\ Len(calls') - n
                  = Cardinality(DOMAIN jsep_transports_by_name_
                                  \ DOMAIN jsep_transports_by_name_')
             /\ \A m \in SeqSet(pending_mids_) :
                  m \notin DOMAIN mid_to_transport_'
             /\ pending_mids_' = <<>>]_vars

\* C17 witness: two different pending mids were detached and then a
\* transport was destroyed.
C17_Witness ==
  /\ Returned("RollbackTransports")
  /\ Len(calls) = 3
  /\ calls[1].cb = "map"
  /\ calls[2].cb = "map"
  /\ calls[1].key # calls[2].key
  /\ calls[3] = StateEvent

\* C18: when only SetTransportForMid calls were made since the last
\* boundary, a transport that was owned and referenced by a mid at that
\* boundary is still owned after RollbackTransports.
C18_RollbackKeepsEarlierTransports ==
  [][(Returns("RollbackTransports") /\ txnSetOnly)
       => \A T \in Range(boundaryMap) \cap Range(jsep_transports_by_name_) :
            T \in Range(jsep_transports_by_name_')]_vars

\* C19: RemoveTransportForMid(mid) invokes map_change_callback_(mid, nullptr)
\* exactly once, also for a mid without an entry; a false result fails the
\* assertion; otherwise the entry of mid is gone, every other entry is as
\* before, and jsep_transports_by_name_ and pending_mids_ are unchanged.
C19_RemoveNotifiesOnceAndErases ==
  [][op'.name = "RemoveTransportForMid"
       => /\ Len(calls') = 1
          /\ calls'[1].cb = "map"
          /\ calls'[1].key = op'.key
          /\ calls'[1].t = None
          /\ UNCHANGED <<jsep_transports_by_name_, pending_mids_>>
          /\ IF calls'[1].ret
               THEN /\ ~aborted'
                    /\ DOMAIN mid_to_transport_'
                         = (DOMAIN mid_to_transport_) \ {op'.key}
                    /\ \A k \in DOMAIN mid_to_transport_' :
                         mid_to_transport_'[k] = mid_to_transport_[k]
               ELSE aborted']_vars

\* C19 witness: a removal returned; the mid has no entry, it is still in
\* the pending log, and another mid and a transport are left as they were.
C19_Witness ==
  /\ Returned("RemoveTransportForMid")
  /\ op.key \notin DOMAIN mid_to_transport_
  /\ op.key \in SeqSet(pending_mids_)
  /\ mid_to_transport_ # EmptyMap
  /\ jsep_transports_by_name_ # EmptyMap

\* C20: when RollbackTransports returns, no mid that was in pending_mids_
\* has an entry in mid_to_transport_, and every other mid has the entry, or
\* the absence of one, that it had before the call.
C20_RollbackErasesExactlyPending ==
  [][Returns("RollbackTransports")
       => \A m \in Mids :
            IF m \in SeqSet(pending_mids_)
              THEN m \notin DOMAIN mid_to_transport_'
              ELSE /\ (m \in DOMAIN mid_to_transport_')
                        <=> (m \in DOMAIN mid_to_transport_)
                   /\ m \in DOMAIN mid_to_transport_
                        => mid_to_transport_'[m] = mid_to_transport_[m]]_vars

\* C20 witness: a rollback detached a pending mid and left the entry of a
\* mid that was not pending.
C20_Witness ==
  /\ Returned("RollbackTransports")
  /\ calls # <<>>
  /\ mid_to_transport_ # EmptyMap

Addrs(groups) == {groups[i].addr : i \in 1..Len(groups)}
\* The sequence s with every occurrence of x left out.
RECURSIVE Without(_, _)
Without(s, x) ==
  IF s = <<>> THEN <<>>
  ELSE (IF Head(s) = x THEN <<>> ELSE <<Head(s)>>) \o Without(Tail(s), x)

\* C13: DeleteMid(group, mid) that returns has removed mid from the stored
\* group with the address group and has left every other stored group, the
\* number of groups and their order as they were; DeleteGroup(group) that
\* returns has removed that one group and has left the others, their
\* contents and their order as they were.
C13_GroupIdentityScoping ==
  [][/\ Returns("DeleteMid")
          => /\ Len(bundle_groups_') = Len(bundle_groups_)
             /\ op'.t \in Addrs(bundle_groups_)
             /\ \A i \in 1..Len(bundle_groups_) :
                  /\ bundle_groups_'[i].addr = bundle_groups_[i].addr
                  /\ IF bundle_groups_[i].addr = op'.t
                       THEN bundle_groups_'[i].mids
                              = Without(bundle_groups_[i].mids, op'.key)
                       ELSE bundle_groups_'[i].mids = bundle_groups_[i].mids
     /\ Returns("DeleteGroup")
          => /\ op'.t \in Addrs(bundle_groups_)
             /\ Len(bundle_groups_') = Len(bundle_groups_) - 1
             /\ \E at \in 1..Len(bundle_groups_) :
                  /\ bundle_groups_[at].addr = op'.t
                  /\ \A j \in 1..Len(bundle_groups_') :
                       bundle_groups_'[j]
                         = bundle_groups_[IF j < at THEN j ELSE j + 1]]_vars

\* C13 witness: of two stored groups that had the same contents, the one
\* with the given address has lost "video" and the other has not.
C13_Witness ==
  /\ Returned("DeleteMid")
  /\ op.key = "video"
  /\ Len(bundle_groups_) = 2
  /\ \E i, j \in 1..2 :
       /\ bundle_groups_[i].addr = op.t
       /\ bundle_groups_[i].mids = <<"audio">>
       /\ bundle_groups_[j].mids = <<"audio", "video">>

\* C14: DeleteMid and DeleteGroup called with a handle that is not that of a
\* currently stored group (a group never stored, or one that DeleteGroup or
\* a later Update has destroyed) fail the assertion and change no stored
\* group.
C14_StaleHandlesFailFast ==
  [][(/\ op'.name \in {"DeleteMid", "DeleteGroup"}
      /\ \/ op'.t \notin Addrs(bundle_groups_)
         \/ op'.t \in staleGroups)
       => (aborted' /\ UNCHANGED bundle_groups_)]_vars

\* C15: after Update the stored list is the description's groups in the
\* description's order, each a copy of its own, and no handle of a group
\* stored or destroyed before the call is the handle of a stored group.
C15_UpdateReplacesWholesale ==
  [][Returns("Update")
       => /\ Len(bundle_groups_') = Len(op'.t)
          /\ \A i \in 1..Len(op'.t) : bundle_groups_'[i].mids = op'.t[i]
          /\ \A i, j \in 1..Len(bundle_groups_') :
               bundle_groups_'[i].addr = bundle_groups_'[j].addr => i = j
          /\ Addrs(bundle_groups_')
               \cap (Addrs(bundle_groups_) \cup staleGroups) = {}]_vars

\* C12: a call of any public method of BundleManager or
\* JsepTransportCollection made on a sequence other than the owner's fails
\* the sequence check: it changes none of bundle_groups_,
\* jsep_transports_by_name_, mid_to_transport_ and pending_mids_, returns
\* nothing read from them and invokes no callback.
C12_WrongSequenceFailsFirst ==
  [][caller' # Owner
       => /\ aborted'
          /\ calls' = <<>>
          /\ ret' = TRUE
          /\ UNCHANGED <<bundle_groups_, jsep_transports_by_name_,
                         mid_to_transport_, pending_mids_>>]_vars

\* C12 witness: SetTransportForMid was called on the other sequence while
\* groups, a transport and an association exist.
C12_Witness ==
  /\ caller # Owner
  /\ aborted
  /\ op.name = "SetTransportForMid"
  /\ bundle_groups_ # <<>>
  /\ mid_to_transport_ # EmptyMap
  /\ op.t \in Range(jsep_transports_by_name_)
  /\ mid_to_transport_[op.key] # op.t
====
